---- MODULE Spec2Model ----
(***************************************************************************)
(* Model of ufo2ft's FlattenComponentsFilter and PropagateAnchorsFilter    *)
(* (Lib/ufo2ft/filters/flattenComponents.py, propagateAnchors.py).         *)
(*                                                                         *)
(* Glyph names are the integers 1..n of a store.  A component is a record  *)
(* [baseGlyph, transformation]; a transformation is the 6-tuple            *)
(* <<xx, xy, yx, yy, dx, dy>> of fontTools' Transform.  An anchor is a     *)
(* record [name, x, y]; an anchor name is a string, modelled as the        *)
(* sequence of its characters' code points so that startswith, '+', '%'    *)
(* formatting and sorted() are computed as Python computes them.           *)
(***************************************************************************)
EXTENDS Integers, Sequences, FiniteSets

VARIABLES
    components,   \* glyph name -> its ordered component list (glyph.components)
    anchors,      \* glyph name -> its ordered anchor list (glyph.anchors)
    modified,     \* FlattenComponentsFilter: context.modified
    processed,    \* PropagateAnchorsFilter: context.processed
    stack,        \* activation records of _propagate_glyph_anchors, innermost last
    visited,      \* glyphs the pass driver has already handed to filter()
    call,         \* the last finished filter() call: <<glyph, return value>>, or <<>>
    prev,         \* the component lists as they were when that call started
    anchors0,     \* the anchor lists at the start of the pass
    finalized     \* glyphs whose activation has run lines 73-89

vars == <<components, anchors, modified, processed, stack, visited, call, prev,
          anchors0, finalized>>

\* ---------------------------------------------------------------- bounds

\* glyphs of a store the flattening pass starts from
NumFlattenGlyphs == 4
\* component references in such a store, all glyphs together
MaxFlattenRefs == 3
\* glyphs of a store the anchor pass starts from
NumGlyphs == 3
\* component references in such a store, all glyphs together
MaxRefs == 3
\* anchors in such a store before the pass, all glyphs together
MaxAnchors == 3
\* the same for the stores with reference cycles
MaxCyclicAnchors == 1

\* the glyph names of the store
Glyphs == DOMAIN components

\* ------------------------------------------------------------ transforms

Translate10 == <<1, 0, 0, 1, 1, 0>>
Scale2 == <<2, 0, 0, 2, 0, 0>>

\* The transformations a component of an initial store may carry: a
\* translation and a scaling, which do not commute.
Transforms == {Translate10, Scale2}

\* Transform.transform(other): self's coefficients combined with other's;
\* the result maps a point through other first and then through self.
transform(self, other) ==
    <<other[1] * self[1] + other[2] * self[3],
      other[1] * self[2] + other[2] * self[4],
      other[3] * self[1] + other[4] * self[3],
      other[3] * self[2] + other[4] * self[4],
      self[1] * other[5] + self[3] * other[6] + self[5],
      self[2] * other[5] + self[4] * other[6] + self[6]>>

\* Transform.transformPoint((x, y))
transformPoint(t, p) ==
    <<t[1] * p[1] + t[3] * p[2] + t[5], t[2] * p[1] + t[4] * p[2] + t[6]>>

\* -------------------------------------------------------- glyph stores

Component(b, t) == [baseGlyph |-> b, transformation |-> t]

Min(a, b) == IF a < b THEN a ELSE b

\* The transformation of the i-th component of a glyph in the stores the
\* anchor pass starts from: x scaled by i, y shifted by i.  The pass only
\* maps points through a component's transformation and never branches on
\* it, so one transformation per list position, all different, is enough.
TransformAt(i) == <<i, 0, 0, 1, 0, i>>

\* The component lists of length l a glyph may start with, its components
\* referencing glyphs of bases; free: every transformation of Transforms,
\* otherwise the i-th component carries TransformAt(i).
ComponentLists(bases, l, free) ==
    IF free
    THEN [1..l -> {Component(b, t) : b \in bases, t \in Transforms}]
    ELSE {[i \in 1..l |-> Component(bs[i], TransformAt(i))] : bs \in [1..l -> bases]}

\* The stores of glyphs 1..n holding at most budget component references in
\* all; acyclic: a glyph's components reference lower-numbered glyphs only
\* (every acyclic reference graph is one of these up to renaming).
RECURSIVE StoresUpTo(_, _, _, _)
StoresUpTo(n, budget, acyclic, free) ==
    IF n = 0 THEN {<<>>}
    ELSE LET bases == IF acyclic THEN 1..(n - 1) ELSE 1..NumGlyphs
         IN UNION {{Append(s, cs) : s \in StoresUpTo(n - 1, budget - l, acyclic, free),
                                    cs \in ComponentLists(bases, l, free)} : l \in 0..budget}

FlattenStores == StoresUpTo(NumFlattenGlyphs, MaxFlattenRefs, TRUE, TRUE)

\* ------------------------------------------------- flattenComponents.py

\* line 49: the nested component's flattened transform tr combined with the
\* transformation of the component that contains it.
ComposeNested(tr, component) == transform(tr, component.transformation)

RECURSIVE flattenComponent(_, _)
RECURSIVE flattenNested(_, _, _)
\* _flattenComponent(glyphSet, component): the list of (baseGlyph, transform)
flattenComponent(glyphSet, component) ==
    IF glyphSet[component.baseGlyph] = <<>>
    THEN <<Component(component.baseGlyph, component.transformation)>>
    ELSE flattenNested(glyphSet, component, 1)

\* the loop of lines 46-51 from the i-th nested component on
flattenNested(glyphSet, component, i) ==
    LET nestedComps == glyphSet[component.baseGlyph] IN
    IF i > Len(nestedComps) THEN <<>>
    ELSE LET flattened_components == flattenComponent(glyphSet, nestedComps[i])
             composed == [k \in 1..Len(flattened_components) |->
                            Component(flattened_components[k].baseGlyph,
                                      ComposeNested(flattened_components[k].transformation,
                                                    component))]
         IN composed \o flattenNested(glyphSet, component, i + 1)

\* glyph.removeComponent(comp): list.remove, the first element equal to comp
RECURSIVE removeComponent(_, _)
removeComponent(list, comp) ==
    IF list = <<>> THEN <<>>
    ELSE IF Head(list) = comp THEN Tail(list)
    ELSE <<Head(list)>> \o removeComponent(Tail(list), comp)

\* the tuples put in front of the list instead of appended
addComponents_Prepend(list, flattened_tuples) == flattened_tuples \o list

\* pen.addComponent(*flattened_tuple) for each tuple: appended at the end
addComponents(list, flattened_tuples) == list \o flattened_tuples

\* every processed component counted as a modification
IsFlattened_Always(flattened_tuples, comp) == TRUE

\* line 27: whether this component's flattening counts as a modification
IsFlattened(flattened_tuples, comp) ==
    flattened_tuples[1] # Component(comp.baseGlyph, comp.transformation)

\* The loop of lines 25-31 over list(glyph.components), from the i-th
\* component of the copy on; returns <<store, flattened>>.
RECURSIVE filterLoop(_, _, _, _, _)
filterLoop(glyphSet, g, copy, i, flattened) ==
    IF i > Len(copy) THEN <<glyphSet, flattened>>
    ELSE LET comp == copy[i]
             flattened_tuples == flattenComponent(glyphSet, comp)
             newList == addComponents(removeComponent(glyphSet[g], comp),
                                      flattened_tuples)
         IN filterLoop([glyphSet EXCEPT ![g] = newList], g, copy, i + 1,
                       flattened \/ IsFlattened(flattened_tuples, comp))

\* FlattenComponentsFilter.filter(glyph) on a glyph without components
FlattenFilterEmpty(g) ==
    /\ g \notin visited
    /\ components[g] = <<>>
    /\ visited' = visited \cup {g}
    /\ call' = <<g, FALSE>>
    /\ prev' = components
    /\ UNCHANGED <<components, anchors, modified, processed, stack, anchors0, finalized>>

\* FlattenComponentsFilter.filter(glyph) on a glyph with components
FlattenFilter(g) ==
    /\ g \notin visited
    /\ components[g] # <<>>
    /\ LET r == filterLoop(components, g, components[g], 1, FALSE) IN
         /\ components' = r[1]
         /\ modified' = IF r[2] THEN modified \cup {g} ELSE modified
         /\ call' = <<g, r[2]>>
    /\ visited' = visited \cup {g}
    /\ prev' = components
    /\ UNCHANGED <<anchors, processed, stack, anchors0, finalized>>

InitFlatten ==
    /\ components \in FlattenStores
    /\ anchors = [g \in DOMAIN components |-> <<>>]
    /\ modified = {}
    /\ processed = {}
    /\ stack = <<>>
    /\ visited = {}
    /\ call = <<>>
    /\ prev = components
    /\ anchors0 = anchors
    /\ finalized = {}

NextFlatten == \E g \in Glyphs : FlattenFilterEmpty(g) \/ FlattenFilter(g)

SpecFlatten == InitFlatten /\ [][NextFlatten]_vars


\* ------------------------------------------------------- anchor names

\* The anchor names of the initial stores: "t", "_t", "t_1", "_t_1", "t2".
NameT == <<116>>
NameMarkT == <<95, 116>>
NameT1 == <<116, 95, 49>>
NameMarkT1 == <<95, 116, 95, 49>>
NameT2 == <<116, 50>>
NameList == <<NameT, NameMarkT, NameT1, NameMarkT1, NameT2>>
AnchorNames == {NameList[k] : k \in 1..Len(NameList)}

Underscore == <<95>>

\* str.startswith
startswith(s, prefix) ==
    Len(prefix) <= Len(s) /\ SubSeq(s, 1, Len(prefix)) = prefix

\* '%d' % n for n >= 0
RECURSIVE Decimal(_)
Decimal(n) ==
    IF n < 10 THEN <<48 + n>> ELSE Decimal(n \div 10) \o <<48 + (n % 10)>>

\* line 104: '%s_%d' % (anchor.name, i + 1), number being i + 1
LigatureName(name, number) == name \o Underscore \o Decimal(number)

\* line 125: '_' + anchor.name
MarkName(name) == Underscore \o name

\* Python's < on str: lexicographic by code point
RECURSIVE StrLess(_, _)
StrLess(a, b) ==
    IF a = <<>> THEN b # <<>>
    ELSE IF b = <<>> THEN FALSE
    ELSE IF Head(a) # Head(b) THEN Head(a) < Head(b)
    ELSE StrLess(Tail(a), Tail(b))

\* sorted(names)
RECURSIVE SortNames(_)
SortNames(S) ==
    IF S = {} THEN <<>>
    ELSE LET least == CHOOSE a \in S : \A b \in S \ {a} : StrLess(a, b)
         IN <<least>> \o SortNames(S \ {least})

\* a dict as a function on its keys; d[k] = v
Put(d, k, v) == [x \in DOMAIN d \cup {k} |-> IF x = k THEN v ELSE d[x]]

\* ---------------------------------------------- initial anchor lists

\* Where glyph g's own anchor named name lies before the pass: a different
\* point for every glyph and name (the pass never branches on a position).
AnchorPos(g, name) ==
    <<4 + (CHOOSE k \in 1..Len(NameList) : NameList[k] = name), 10 * g>>

Anchor(name, pos) == [name |-> name, x |-> pos[1], y |-> pos[2]]

\* Glyph g's anchor list when it starts with the names of S: unique names.
AnchorList(g, S) ==
    LET order == SortNames(S)
    IN [k \in 1..Len(order) |-> Anchor(order[k], AnchorPos(g, order[k]))]

\* The name sets of glyphs 1..n, at most budget names in all.
RECURSIVE AnchorSetsUpTo(_, _, _)
AnchorSetsUpTo(n, budget, names) ==
    IF n = 0 THEN {<<>>}
    ELSE UNION {{Append(s, S) : s \in AnchorSetsUpTo(n - 1, budget - k, names),
                                S \in {X \in SUBSET names : Cardinality(X) = k}}
                : k \in 0..Min(budget, Cardinality(names))}

\* ------------------------------------------------ propagateAnchors.py

\* line 67: any(a.name.startswith('_') for a in glyph.anchors)
IsMarkGlyph(glyphAnchors) ==
    \E k \in 1..Len(glyphAnchors) : startswith(glyphAnchors[k].name, Underscore)

\* the guard written with equality instead of startswith
HasAnchorFor_ExactOnly(compositeAnchors, anchor_name) ==
    \E k \in 1..Len(compositeAnchors) : compositeAnchors[k].name = anchor_name

\* line 76: any(a.name.startswith(anchor_name) for a in composite.anchors)
HasAnchorFor(compositeAnchors, anchor_name) ==
    \E k \in 1..Len(compositeAnchors) :
        startswith(compositeAnchors[k].name, anchor_name)

\* lines 97-100: the first anchor of the list with that name, if any
HasAnchorNamed(glyphAnchors, name) ==
    \E k \in 1..Len(glyphAnchors) : glyphAnchors[k].name = name

FirstAnchorNamed(glyphAnchors, name) ==
    glyphAnchors[CHOOSE k \in 1..Len(glyphAnchors) :
                    /\ glyphAnchors[k].name = name
                    /\ \A j \in 1..(k - 1) : glyphAnchors[j].name # name]

\* the anchor's own coordinates, not mapped
TransformedAnchor_Unmapped(anchor, component) == <<anchor.x, anchor.y>>

\* lines 103-105, 108-109: the anchor mapped through the component's transform
TransformedAnchor(anchor, component) ==
    transformPoint(component.transformation, <<anchor.x, anchor.y>>)

\* lines 102-105: the loop over enumerate(anchors) from the i-th pair on
RECURSIVE PutLigatureAnchors(_, _, _, _, _)
PutLigatureAnchors(anchor_data, glyphAnchors, contributors, anchor_name, i) ==
    IF i > Len(contributors) THEN anchor_data
    ELSE LET component == contributors[i]
             anchor == FirstAnchorNamed(glyphAnchors[component.baseGlyph], anchor_name)
         IN PutLigatureAnchors(
                Put(anchor_data, LigatureName(anchor.name, i),
                    TransformedAnchor(anchor, component)),
                glyphAnchors, contributors, anchor_name, i + 1)

\* _get_anchor_data(anchor_data, glyphSet, components, anchor_name)
get_anchor_data(anchor_data, glyphAnchors, comps, anchor_name) ==
    LET contributors ==
            SelectSeq(comps, LAMBDA c : HasAnchorNamed(glyphAnchors[c.baseGlyph],
                                                       anchor_name))
    IN IF Len(contributors) > 1
       THEN PutLigatureAnchors(anchor_data, glyphAnchors, contributors, anchor_name, 1)
       ELSE IF Len(contributors) = 1
       THEN LET component == contributors[1]
                anchor == FirstAnchorNamed(glyphAnchors[component.baseGlyph], anchor_name)
            IN Put(anchor_data, anchor.name, TransformedAnchor(anchor, component))
       ELSE anchor_data

\* no mark anchor ever relocating
ShouldAdjust_Never(anchor_data, markAnchors, anchor) == FALSE

\* the adjustment made whenever the mark glyph has the anchor, staged or not
ShouldAdjust_Unstaged(anchor_data, markAnchors, anchor) ==
    HasAnchorNamed(markAnchors, MarkName(anchor.name))

\* lines 124-125: the condition under which a mark glyph's anchor relocates
ShouldAdjust(anchor_data, markAnchors, anchor) ==
    /\ anchor.name \in DOMAIN anchor_data
    /\ HasAnchorNamed(markAnchors, MarkName(anchor.name))

\* lines 121-126: the loop over glyph.anchors from the k-th anchor on
RECURSIVE adjustFrom(_, _, _, _)
adjustFrom(anchor_data, markAnchors, component, k) ==
    IF k > Len(markAnchors) THEN anchor_data
    ELSE LET anchor == markAnchors[k]
         IN adjustFrom(IF ShouldAdjust(anchor_data, markAnchors, anchor)
                       THEN Put(anchor_data, anchor.name,
                                TransformedAnchor(anchor, component))
                       ELSE anchor_data,
                       markAnchors, component, k + 1)

\* _adjust_anchors(anchor_data, glyphSet, component)
adjust_anchors(anchor_data, glyphAnchors, component) ==
    adjustFrom(anchor_data, glyphAnchors[component.baseGlyph], component, 1)

\* lines 73-77: the loop over anchor_names, visited in the given order
RECURSIVE stageNames(_, _, _, _, _)
stageNames(to_add, glyphAnchors, frame, order, k) ==
    IF k > Len(order) THEN to_add
    ELSE stageNames(IF ~HasAnchorFor(glyphAnchors[frame.glyph], order[k])
                    THEN get_anchor_data(to_add, glyphAnchors,
                                         frame.base_components, order[k])
                    ELSE to_add,
                    glyphAnchors, frame, order, k + 1)

\* lines 79-80: the loop over mark_components from the k-th on
RECURSIVE adjustMarks(_, _, _, _)
adjustMarks(to_add, glyphAnchors, mark_components, k) ==
    IF k > Len(mark_components) THEN to_add
    ELSE adjustMarks(adjust_anchors(to_add, glyphAnchors, mark_components[k]),
                     glyphAnchors, mark_components, k + 1)

\* lines 73-80: to_add when the set anchor_names is iterated in this order
StagedAnchors(glyphAnchors, frame, order) ==
    adjustMarks(stageNames(<<>>, glyphAnchors, frame, order, 1),
                glyphAnchors, frame.mark_components, 1)

\* lines 83-89: the anchors appended, in sorted(to_add.items()) order
AppendedAnchors(to_add) ==
    LET order == SortNames(DOMAIN to_add)
    IN [k \in 1..Len(order) |-> Anchor(order[k], to_add[order[k]])]

\* the orders in which a set may be iterated
Orders(S) ==
    {f \in [1..Cardinality(S) -> S] : \A i, j \in DOMAIN f : f[i] = f[j] => i = j}

\* the membership test never finding the name
AlreadyProcessed_Never(name, proc) == FALSE

\* line 53: composite.name in processed
AlreadyProcessed(name, proc) == name \in proc

\* the name not recorded
MarkProcessed_Forgotten(name, proc) == proc

\* line 55: processed.add(composite.name)
MarkProcessed(name, proc) == proc \cup {name}

\* every glyph taken for one without components
HasNoComponents_Always(comps) == TRUE

\* line 57: not composite.components
HasNoComponents(comps) == comps = <<>>

\* the locals of one activation of _propagate_glyph_anchors that got past
\* line 58; i is the position in the loop of line 64
NewFrame(g) ==
    [glyph |-> g, i |-> 1, base_components |-> <<>>, mark_components |-> <<>>,
     anchor_names |-> {}]

\* lines 67-71, after the recursive call for the frame's i-th component
\* returned: the component is classified and the loop moves on
Classify(frame, glyphAnchors) ==
    LET component == components[frame.glyph][frame.i]
        glyph == glyphAnchors[component.baseGlyph]
    IN IF IsMarkGlyph(glyph)
       THEN [frame EXCEPT !.i = @ + 1,
                          !.mark_components = Append(@, component)]
       ELSE [frame EXCEPT !.i = @ + 1,
                          !.base_components = Append(@, component),
                          !.anchor_names = @ \cup {glyph[k].name : k \in 1..Len(glyph)}]

\* the recursion depth the model allows; the code's depth never exceeds
\* the number of glyphs
MaxDepth == NumGlyphs + 1

Top == stack[Len(stack)]
CurrentChild == components[Top.glyph][Top.i].baseGlyph
InLoop == stack # <<>> /\ Top.i <= Len(components[Top.glyph])

\* PropagateAnchorsFilter.filter(glyph), lines 40-41: no components
PropFilterEmpty(g) ==
    /\ stack = <<>>
    /\ g \notin visited
    /\ components[g] = <<>>
    /\ visited' = visited \cup {g}
    /\ call' = <<g, FALSE>>
    /\ UNCHANGED <<components, anchors, modified, processed, stack, prev, anchors0, finalized>>

\* filter(glyph), lines 42-44, the call returning at line 54
PropFilterProcessed(g) ==
    /\ stack = <<>>
    /\ g \notin visited
    /\ components[g] # <<>>
    /\ AlreadyProcessed(g, processed)
    /\ visited' = visited \cup {g}
    /\ call' = <<g, TRUE>>
    /\ UNCHANGED <<components, anchors, modified, processed, stack, prev, anchors0, finalized>>

\* filter(glyph), line 42, the call getting past line 58
PropFilterEnter(g) ==
    /\ stack = <<>>
    /\ g \notin visited
    /\ components[g] # <<>>
    /\ ~AlreadyProcessed(g, processed)
    /\ processed' = MarkProcessed(g, processed)
    /\ stack' = <<NewFrame(g)>>
    /\ visited' = visited \cup {g}
    /\ UNCHANGED <<components, anchors, modified, call, prev, anchors0, finalized>>

\* line 66, the recursive call returning at line 54, then lines 67-71
VisitProcessed ==
    /\ InLoop
    /\ AlreadyProcessed(CurrentChild, processed)
    /\ stack' = [stack EXCEPT ![Len(stack)] = Classify(Top, anchors)]
    /\ UNCHANGED <<components, anchors, modified, processed, visited, call, prev,
                   anchors0, finalized>>

\* line 66, the recursive call returning at line 58, then lines 67-71
VisitLeaf ==
    /\ InLoop
    /\ ~AlreadyProcessed(CurrentChild, processed)
    /\ HasNoComponents(components[CurrentChild])
    /\ processed' = MarkProcessed(CurrentChild, processed)
    /\ stack' = [stack EXCEPT ![Len(stack)] = Classify(Top, anchors)]
    /\ UNCHANGED <<components, anchors, modified, visited, call, prev, anchors0, finalized>>

\* line 66, the recursive call getting past line 58
VisitComposite ==
    /\ InLoop
    /\ ~AlreadyProcessed(CurrentChild, processed)
    /\ ~HasNoComponents(components[CurrentChild])
    /\ Len(stack) < MaxDepth
    /\ processed' = MarkProcessed(CurrentChild, processed)
    /\ stack' = Append(stack, NewFrame(CurrentChild))
    /\ UNCHANGED <<components, anchors, modified, visited, call, prev, anchors0, finalized>>

\* lines 73-89 of the innermost activation and its return: to the caller's
\* lines 67-71, or to filter(), which returns True
Finalize ==
    /\ stack # <<>>
    /\ Top.i > Len(components[Top.glyph])
    /\ \E order \in Orders(Top.anchor_names) :
          anchors' = [anchors EXCEPT ![Top.glyph] =
                         @ \o AppendedAnchors(StagedAnchors(anchors, Top, order))]
    /\ IF Len(stack) = 1
       THEN /\ stack' = <<>>
            /\ call' = <<Top.glyph, TRUE>>
       ELSE /\ stack' = [k \in 1..(Len(stack) - 1) |->
                            IF k = Len(stack) - 1
                            THEN Classify(stack[k], anchors')
                            ELSE stack[k]]
            /\ UNCHANGED call
    /\ finalized' = finalized \cup {Top.glyph}
    /\ UNCHANGED <<components, modified, processed, visited, prev, anchors0>>

\* the stores the anchor pass starts from
InitPropagate(stores, nameSets) ==
    /\ components \in stores
    /\ \E sets \in nameSets :
          anchors = [g \in 1..NumGlyphs |-> AnchorList(g, sets[g])]
    /\ modified = {}
    /\ processed = {}
    /\ stack = <<>>
    /\ visited = {}
    /\ call = <<>>
    /\ prev = components
    /\ anchors0 = anchors
    /\ finalized = {}

NextPropagate ==
    \/ \E g \in Glyphs : PropFilterEmpty(g)
    \/ \E g \in Glyphs : PropFilterProcessed(g)
    \/ \E g \in Glyphs : PropFilterEnter(g)
    \/ VisitProcessed
    \/ VisitLeaf
    \/ VisitComposite
    \/ Finalize

\* the anchor pass over an acyclic store
Init == InitPropagate(StoresUpTo(NumGlyphs, MaxRefs, TRUE, FALSE),
                      AnchorSetsUpTo(NumGlyphs, MaxAnchors, AnchorNames))

Spec == Init /\ [][NextPropagate]_vars


\* the anchor pass over a store whose references may form cycles; glyphs
\* start with anchors named "t" and "_t" only
InitCyclic == InitPropagate(StoresUpTo(NumGlyphs, MaxRefs, FALSE, FALSE),
                            AnchorSetsUpTo(NumGlyphs, MaxCyclicAnchors, {NameT, NameMarkT}))

\* a running activation takes its next step: the interpreter does not stop
\* in the middle of a call
Step == VisitProcessed \/ VisitLeaf \/ VisitComposite \/ Finalize

SpecCyclic == InitCyclic /\ [][NextPropagate]_vars /\ WF_vars(Step)

\* ------------------------------------- claims on anchor propagation

NamesOf(list) == {list[k].name : k \in 1..Len(list)}
PointOf(anchor) == <<anchor.x, anchor.y>>

\* what lines 83-89 appended to glyph g
Appended(g) == SubSeq(anchors[g], Len(anchors0[g]) + 1, Len(anchors[g]))

\* the appended anchors of g named s
AppendedAs(g, s) == {k \in 1..Len(Appended(g)) : Appended(g)[k].name = s}

\* g's components by the class of the glyph they reference
BaseComps(g) ==
    SelectSeq(components[g], LAMBDA c : ~IsMarkGlyph(anchors[c.baseGlyph]))
MarkComps(g) ==
    SelectSeq(components[g], LAMBDA c : IsMarkGlyph(anchors[c.baseGlyph]))

\* the anchor names found on the glyphs of g's base components
Collected(g) ==
    UNION {NamesOf(anchors[BaseComps(g)[k].baseGlyph]) : k \in 1..Len(BaseComps(g))}

\* g's base components whose glyph defines an anchor named n
Contributors(g, n) ==
    SelectSeq(BaseComps(g), LAMBDA c : n \in NamesOf(anchors[c.baseGlyph]))

\* g had, before the pass, an anchor whose name is n or begins with n
HadAnchorFor(g, n) == \E a \in NamesOf(anchors0[g]) : startswith(a, n)

\* the anchor named n of component c's glyph, mapped through c's transform
MappedAnchor(c, n) ==
    transformPoint(c.transformation,
                   PointOf(FirstAnchorNamed(anchors[c.baseGlyph], n)))

\* the position staged under s for s itself: one base component supplies s
PlainPositions(g, s) ==
    IF s \in Collected(g) /\ ~HadAnchorFor(g, s) /\ Len(Contributors(g, s)) = 1
    THEN {MappedAnchor(Contributors(g, s)[1], s)}
    ELSE {}

\* the ligature variants n_i staged under the name s
LigatureSources(g, s) ==
    {<<n, i>> \in Collected(g) \X (1..Len(components[g])) :
        /\ ~HadAnchorFor(g, n)
        /\ Len(Contributors(g, n)) >= 2
        /\ i <= Len(Contributors(g, n))
        /\ LigatureName(n, i) = s}

LigaturePositions(g, s) ==
    {MappedAnchor(Contributors(g, src[1])[src[2]], src[1]) : src \in LigatureSources(g, s)}

\* the positions staged under s from the base components
BasePositions(g, s) == PlainPositions(g, s) \cup LigaturePositions(g, s)

\* the mark components of g whose glyph has both an anchor s and "_" + s
QualifyingMarks(g, s) ==
    {k \in 1..Len(MarkComps(g)) :
        LET names == NamesOf(anchors[MarkComps(g)[k].baseGlyph])
        IN s \in names /\ MarkName(s) \in names}

LastOf(S) == CHOOSE k \in S : \A j \in S : j <= k

\* where an appended anchor named s may lie
RelocatedPositions(g, s) ==
    IF QualifyingMarks(g, s) # {}
    THEN {MappedAnchor(MarkComps(g)[LastOf(QualifyingMarks(g, s))], s)}
    ELSE BasePositions(g, s)

\* C4 as stated: a composite with no anchor beginning with n and k >= 2
\* base components contributing n receives n_1 .. n_k, the i-th at the i-th
\* contributing glyph's anchor n mapped through that component's transform,
\* and no plain n; with exactly one contributor it receives exactly one n.
C4_LigatureNaming_Stated ==
    \A g \in finalized : \A n \in Collected(g) :
        ~HadAnchorFor(g, n) =>
            LET contributors == Contributors(g, n) IN
            IF Len(contributors) >= 2
            THEN /\ \A i \in 1..Len(contributors) :
                       /\ Cardinality(AppendedAs(g, LigatureName(n, i))) = 1
                       /\ \A k \in AppendedAs(g, LigatureName(n, i)) :
                             PointOf(Appended(g)[k]) = MappedAnchor(contributors[i], n)
                 /\ n \notin NamesOf(anchors[g])
            ELSE Cardinality(AppendedAs(g, n)) = 1

\* C4 amended: the composite receives exactly one anchor under each of
\* n_1 .. n_k; n_i lies at the i-th contributing glyph's anchor n mapped
\* through that component's transform unless a mark component relocates
\* n_i (then at the last such mark's anchor n_i through its transform) or
\* n_i is itself a collected name with one contributor (then at either
\* staged position); plain n is added only as the ligature variant m_j of
\* another collected name m; one contributor gives exactly one anchor n.
C4_LigatureNaming ==
    \A g \in finalized : \A n \in Collected(g) :
        ~HadAnchorFor(g, n) =>
            LET contributors == Contributors(g, n) IN
            IF Len(contributors) >= 2
            THEN /\ \A i \in 1..Len(contributors) :
                       LET s == LigatureName(n, i) IN
                       /\ Cardinality(AppendedAs(g, s)) = 1
                       /\ \A k \in AppendedAs(g, s) :
                             PointOf(Appended(g)[k]) \in
                                IF QualifyingMarks(g, s) # {}
                                THEN RelocatedPositions(g, s)
                                ELSE {MappedAnchor(contributors[i], n)}
                                     \cup PlainPositions(g, s)
                 /\ AppendedAs(g, n) # {} => LigatureSources(g, n) # {}
            ELSE Cardinality(AppendedAs(g, n)) = 1

\* C4's case: two base components contribute n and the composite got n_1
\* and n_2, each at its own component's mapped anchor.
C4_Witness ==
    \E g \in finalized : \E n \in Collected(g) :
        /\ ~HadAnchorFor(g, n)
        /\ Len(Contributors(g, n)) = 2
        /\ Contributors(g, n)[1].baseGlyph # Contributors(g, n)[2].baseGlyph
        /\ \A i \in 1..2 : \E k \in AppendedAs(g, LigatureName(n, i)) :
              PointOf(Appended(g)[k]) = MappedAnchor(Contributors(g, n)[i], n)
        /\ n \notin NamesOf(anchors[g])

\* the scenario of C5: g has two components, a base component x whose
\* glyph has the single anchor "t" and a mark component m whose glyph has
\* "_t" and one more anchor, named second; g had no anchor beginning "t"
MarkScenario(g, x, m, second) ==
    /\ g \in finalized
    /\ Len(components[g]) = 2
    /\ {x, m} = {1, 2}
    /\ NamesOf(anchors[components[g][x].baseGlyph]) = {NameT}
    /\ NamesOf(anchors[components[g][m].baseGlyph]) = {NameMarkT, second}
    /\ ~HadAnchorFor(g, NameT)

\* C5 as stated: with the mark glyph's anchors "_t" and "t2", the
\* composite's propagated "t" lies at the mark glyph's "t2" mapped through
\* the mark component's transform.
C5_MarkAdjustment_Stated ==
    \A g \in Glyphs : \A x, m \in {1, 2} :
        MarkScenario(g, x, m, NameT2) =>
            /\ AppendedAs(g, NameT) # {}
            /\ \A k \in AppendedAs(g, NameT) :
                  PointOf(Appended(g)[k]) = MappedAnchor(components[g][m], NameT2)

\* C5 amended: with the mark glyph's anchors "_t" and "t2" nothing is
\* relocated and the composite's "t" lies at the base glyph's "t" mapped
\* through the base component's transform; with "_t" and "t" it lies at
\* the mark glyph's "t" mapped through the mark component's transform.
C5_MarkAdjustment ==
    \A g \in Glyphs : \A x, m \in {1, 2} :
        /\ MarkScenario(g, x, m, NameT2) =>
              /\ Cardinality(AppendedAs(g, NameT)) = 1
              /\ \A k \in AppendedAs(g, NameT) :
                    PointOf(Appended(g)[k]) = MappedAnchor(components[g][x], NameT)
        /\ MarkScenario(g, x, m, NameT) =>
              /\ Cardinality(AppendedAs(g, NameT)) = 1
              /\ \A k \in AppendedAs(g, NameT) :
                    PointOf(Appended(g)[k]) = MappedAnchor(components[g][m], NameT)

\* C5's case: a mark glyph with "_t" and "t" moved the composite's "t"
\* away from the base glyph's mapped "t".
C5_Witness ==
    \E g \in Glyphs : \E x, m \in {1, 2} :
        /\ MarkScenario(g, x, m, NameT)
        /\ \E k \in AppendedAs(g, NameT) :
              /\ PointOf(Appended(g)[k]) = MappedAnchor(components[g][m], NameT)
              /\ PointOf(Appended(g)[k]) # MappedAnchor(components[g][x], NameT)

UniqueNames(list) == \A i, j \in 1..Len(list) : list[i].name = list[j].name => i = j

\* C6: a composite that had an anchor named n or beginning with n gets no
\* anchor propagated for n: none named n, and an appended n_i only as a
\* name of its own (every appended name is m or m_i of a collected name m
\* the composite had no anchor for); the anchors a glyph had keep name,
\* position and place; anchor names that were unique stay unique.
C6_NoOverwrite ==
    /\ \A g \in Glyphs :
          /\ Len(anchors[g]) >= Len(anchors0[g])
          /\ SubSeq(anchors[g], 1, Len(anchors0[g])) = anchors0[g]
          /\ UniqueNames(anchors0[g]) => UniqueNames(anchors[g])
    /\ \A g \in finalized : \A n \in Collected(g) :
          HadAnchorFor(g, n) => AppendedAs(g, n) = {}
    /\ \A g \in finalized : \A k \in 1..Len(Appended(g)) :
          \E m \in Collected(g) :
              /\ ~HadAnchorFor(g, m)
              /\ \/ Appended(g)[k].name = m
                 \/ \E i \in 1..Len(Contributors(g, m)) :
                       Appended(g)[k].name = LigatureName(m, i)

\* C6's case: a composite that had "t_1" was finalized over two base
\* components contributing "t" and got nothing.
C6_Witness ==
    \E g \in finalized :
        /\ NameT1 \in NamesOf(anchors0[g])
        /\ Len(Contributors(g, NameT)) >= 2
        /\ anchors[g] = anchors0[g]

\* C7: an appended anchor named s lies at the last mark component's glyph
\* anchor s mapped through that component's transform when some mark
\* component's glyph has both s and "_" + s, and where the base components
\* staged it otherwise; a name is appended exactly when the base
\* components staged it.
C7_MarkRelocation ==
    \A g \in finalized :
        /\ \A k \in 1..Len(Appended(g)) :
              LET a == Appended(g)[k] IN
              /\ BasePositions(g, a.name) # {}
              /\ PointOf(a) \in RelocatedPositions(g, a.name)
        /\ \A n \in Collected(g) : \A i \in 1..Len(components[g]) :
              /\ BasePositions(g, n) # {} => AppendedAs(g, n) # {}
              /\ BasePositions(g, LigatureName(n, i)) # {}
                    => AppendedAs(g, LigatureName(n, i)) # {}

\* C7's case: two mark components qualify for the same name and the later
\* one decided the position.
C7_Witness ==
    \E g \in finalized : \E k \in 1..Len(Appended(g)) :
        LET a == Appended(g)[k]
            marks == QualifyingMarks(g, a.name)
        IN /\ Cardinality(marks) = 2
           /\ PointOf(a) = MappedAnchor(MarkComps(g)[LastOf(marks)], a.name)
           /\ \A j \in marks \ {LastOf(marks)} :
                 PointOf(a) # MappedAnchor(MarkComps(g)[j], a.name)
           /\ PointOf(a) \notin BasePositions(g, a.name)

\* a glyph whose anchors are final: nothing is appended to a glyph without
\* components, and a composite's are appended when it is finalized
FullyPropagated(h) == components[h] = <<>> \/ h \in finalized

\* C8: a composite is finalized only after every glyph its components
\* reference is fully propagated; the classification an activation made
\* of a component is the one its glyph's final anchors give; a glyph found
\* in the processed set during a traversal is fully propagated.
C8_PostOrder ==
    /\ \A g \in finalized : \A k \in 1..Len(components[g]) :
          FullyPropagated(components[g][k].baseGlyph)
    /\ \A f \in 1..Len(stack) : \A k \in 1..(stack[f].i - 1) :
          LET c == components[stack[f].glyph][k] IN
          /\ FullyPropagated(c.baseGlyph)
          /\ IF IsMarkGlyph(anchors[c.baseGlyph])
             THEN \E j \in 1..Len(stack[f].mark_components) :
                     stack[f].mark_components[j] = c
             ELSE /\ \E j \in 1..Len(stack[f].base_components) :
                        stack[f].base_components[j] = c
                  /\ NamesOf(anchors[c.baseGlyph]) \subseteq stack[f].anchor_names
    /\ (InLoop /\ CurrentChild \in processed) => FullyPropagated(CurrentChild)

\* C8's case: the driver called the outer composite first, and it was
\* finalized after the composite it references received an anchor.
C8_Witness ==
    \E g \in finalized : \E k \in 1..Len(components[g]) :
        LET h == components[g][k].baseGlyph IN
        /\ h \in finalized
        /\ h \notin visited
        /\ Appended(h) # <<>>
        /\ Appended(g) # <<>>

\* C9: every call eventually returns, also on cyclic stores: no glyph has
\* two activations at once, and a call in progress leads to the stack
\* being empty again.
C9_Termination ==
    /\ [](\A i, j \in 1..Len(stack) : stack[i].glyph = stack[j].glyph => i = j)
    /\ (stack # <<>>) ~> (stack = <<>>)

\* C9's case: a call on a glyph that references itself returned.
C9_Witness ==
    /\ stack = <<>>
    /\ \E g \in finalized : \E k \in 1..Len(components[g]) :
          components[g][k].baseGlyph = g

\* C10: the anchors appended to a composite do not depend on the order in
\* which the set anchor_names is iterated.
C10_OrderIndependent ==
    (stack # <<>> /\ Top.i > Len(components[Top.glyph])) =>
        \A o1, o2 \in Orders(Top.anchor_names) :
            AppendedAnchors(StagedAnchors(anchors, Top, o1))
            = AppendedAnchors(StagedAnchors(anchors, Top, o2))

\* --------------------------------------------- claims on flattening

\* three points that determine an affine map
TestPoints == {<<0, 0>>, <<1, 0>>, <<0, 1>>}

\* C1: for a chain A -> B (Tb) -> C (Tc) with C a leaf, flatten(A) leaves A
\* with exactly one component, referencing C, whose transform maps every
\* point first through the inner Tc and then through the outer Tb.
C1_CompositionOrder ==
    (call # <<>> /\ Len(prev[call[1]]) = 1) =>
        LET A == call[1]
            outer == prev[A][1]
            B == outer.baseGlyph
        IN (Len(prev[B]) = 1 /\ prev[prev[B][1].baseGlyph] = <<>>) =>
            LET inner == prev[B][1] IN
            /\ Len(components[A]) = 1
            /\ components[A][1].baseGlyph = inner.baseGlyph
            /\ \A p \in TestPoints :
                  transformPoint(components[A][1].transformation, p)
                  = transformPoint(outer.transformation,
                                   transformPoint(inner.transformation, p))

\* The leaf glyphs reached from glyph h, depth first and left to right.
RECURSIVE LeafNames(_, _)
RECURSIVE LeafNamesOfList(_, _)
LeafNames(store, h) ==
    IF store[h] = <<>> THEN <<h>> ELSE LeafNamesOfList(store, store[h])

LeafNamesOfList(store, list) ==
    IF list = <<>> THEN <<>>
    ELSE LeafNames(store, Head(list).baseGlyph) \o LeafNamesOfList(store, Tail(list))

BaseNames(list) == [k \in 1..Len(list) |-> list[k].baseGlyph]

\* C2: after flatten(glyph) the glyph's component list references leaf
\* glyphs only and is the depth-first, left-to-right sequence of the leaf
\* references reachable through its original components.
C2_FlattenShape ==
    call # <<>> =>
        LET g == call[1] IN
        /\ \A k \in 1..Len(components[g]) :
              components[components[g][k].baseGlyph] = <<>>
        /\ BaseNames(components[g]) = LeafNamesOfList(prev, prev[g])

\* C2's case: a nested composite with two different leaf components was
\* expanded into both, in their order.
C2_Witness ==
    /\ call # <<>>
    /\ Len(prev[call[1]]) = 1
    /\ BaseNames(prev[prev[call[1]][1].baseGlyph]) = <<1, 2>>
    /\ BaseNames(components[call[1]]) = <<1, 2>>

\* C3: flatten(glyph) returns true, and the glyph is in the modified set,
\* exactly when one of its components references a composite glyph (its
\* flattened result differs from it); otherwise the component list is as
\* it was.
C3_ModificationReport ==
    call # <<>> =>
        LET g == call[1]
            nested == \E k \in 1..Len(prev[g]) : prev[prev[g][k].baseGlyph] # <<>>
        IN /\ call[2] = nested
           /\ call[2] = (\E k \in 1..Len(prev[g]) :
                            flattenComponent(prev, prev[g][k]) # <<prev[g][k]>>)
           /\ (g \in modified) = nested
           /\ ~nested => components[g] = prev[g]

\* C3's case: a call that flattened a nested component and reported it.
C3_Witness ==
    /\ call # <<>>
    /\ call[2] = TRUE
    /\ call[1] \in modified
    /\ components[call[1]] # prev[call[1]]

====
